---------------------------- MODULE Spec2Model ----------------------------
(***************************************************************************)
(* BLE proxy (src/main/main.c): app_main boots the stack and registers    *)
(* three callbacks; the radio stack then invokes gap_event_handler,        *)
(* gattc_event_handler and gatts_event_handler, one event at a time, on a  *)
(* single event-processing context.                                        *)
(*                                                                         *)
(* The program state is the file's mutable globals.  `trace' is the        *)
(* observable history: every event handed to a handler, every request the  *)
(* handler makes to the radio stack (with the status the stack returned)   *)
(* and the diagnostic lines the claims speak about, in program order.      *)
(*                                                                         *)
(* The radio stack is the environment.  It delivers the outcome event of   *)
(* a request only after it accepted that request; on top of that it may    *)
(* deliver a bounded number of unsolicited events: a repeat of an event it *)
(* has already delivered, an advertise-start-complete nobody asked for, or *)
(* an event the handlers have no case for.                                 *)
(***************************************************************************)
EXTENDS Integers, Sequences, FiniteSets

(* ------------------------------ bounds -------------------------------- *)
\* events delivered to the handlers in one run
MaxEvents == 4
\* unsolicited deliveries among them
MaxSpurious == 1
\* connection handles the stack hands out: 0..MaxConnId
MaxConnId == 1
\* characteristics the attribute-count query may report: 0..MaxAttrCount
MaxAttrCount == 2

(* ------------------------- program constants -------------------------- *)
ESP_OK == 0
ESP_GATT_OK == 0
ESP_UUID_LEN_16 == 2
BLE_ADDR_TYPE_PUBLIC == 0
NULL == 0

\* static esp_bd_addr_t target_bda = {0xFE, 0x98, 0x00, 0x30, 0x39, 0x45}
target_bda == <<254, 152, 0, 48, 57, 69>>
\* new_mac in app_main
new_mac == <<254, 152, 0, 48, 57, 69>>
\* initial value of service_data_uuid (0xC1C5)
SERVICE_DATA_UUID_INIT == 49605
\* initial value of service_data_payload (20 bytes)
SERVICE_DATA_PAYLOAD_INIT ==
    << 254, 152, 0, 48, 57, 68, 228, 12, 127, 8,
       29, 4, 0, 0, 4, 70, 96, 9, 0, 10 >>
\* sizeof(service_data) = 2 + sizeof(service_data_payload)
SERVICE_DATA_SIZE == 2 + Len(SERVICE_DATA_PAYLOAD_INIT)

ConnIds == 0..MaxConnId
\* non-OK esp_gatt_status_t codes an open event may carry
\* (ESP_GATT_ERROR 0x85, ESP_GATT_CONN_FAIL_ESTABLISH 0x93)
OpenFailStatuses == {133, 147}
\* immediate status of a request to the radio stack (ESP_OK, ESP_FAIL)
CallResults == {ESP_OK, -1}
\* uuid.len of a discovered service (16-bit, 128-bit)
UuidLens == {ESP_UUID_LEN_16, 16}
\* application interfaces the stack hands out on registration
StackIf == [gattc |-> 3, gatts |-> 4]

VARIABLES
    pc,                     \* "boot" | "running" | "aborted"
    gattc_if_global,
    gattc_conn_id_global,
    connected,
    service_data_uuid,
    service_data_payload,
    service_data,
    unsolicited,            \* trace indices of the unsolicited deliveries
    trace

vars == << pc, gattc_if_global, gattc_conn_id_global, connected,
           service_data_uuid, service_data_payload, service_data,
           unsolicited, trace >>

profile_vars == << service_data_uuid, service_data_payload >>
client_vars == << gattc_if_global, gattc_conn_id_global, connected >>

(* --------------------------- trace entries ---------------------------- *)
\* an event handed to a handler: a, b are its parameters, c the interface
Evt(n, a, b, c) ==
    [t |-> "evt", n |-> n, a |-> a, b |-> b, c |-> c, r |-> 0, buf |-> <<>>]
\* a request to the radio stack: a, b, c its arguments, r the status returned
Call(n, a, b, c, r, buf) ==
    [t |-> "call", n |-> n, a |-> a, b |-> b, c |-> c, r |-> r, buf |-> buf]
\* a diagnostic line
Log(n, a, b) ==
    [t |-> "log", n |-> n, a |-> a, b |-> b, c |-> 0, r |-> 0, buf |-> <<>>]
\* an internal step of the program (prepare_service_data, malloc, free)
Step(n, a, r, buf) ==
    [t |-> "step", n |-> n, a |-> a, b |-> 0, c |-> 0, r |-> r, buf |-> buf]

IsEvt(e, n) == e.t = "evt" /\ e.n = n
IsCall(e, n) == e.t = "call" /\ e.n = n

EvtIdx(n) == {i \in DOMAIN trace : IsEvt(trace[i], n)}
CallIdx(n) == {i \in DOMAIN trace : IsCall(trace[i], n)}
AccIdx(n) == {i \in CallIdx(n) : trace[i].r = ESP_OK}
AllEvtIdx == {i \in DOMAIN trace : trace[i].t = "evt"}
NumEvents == Cardinality(AllEvtIdx)
\* the k-th smallest element of a set of indices
NthIdx(S, k) == CHOOSE i \in S : Cardinality({j \in S : j < i}) = k - 1

(* ------------------------- Identity profile --------------------------- *)
\* Variant that stores the 16-bit UUID high byte first.
prepare_service_data_bigEndian(uuid, payload, buf) ==
    LET b0 == [buf EXCEPT ![1] = (uuid \div 256) % 256]
        b1 == [b0 EXCEPT ![2] = uuid % 256]
        b2 == [i \in 1..Len(b1) |->
                 IF i >= 3 /\ i <= 2 + Len(payload) THEN payload[i - 2] ELSE b1[i]]
    IN  [uuid |-> uuid, payload |-> payload, buf |-> b2]

\* Variant that treats the last payload byte as a rolling counter: it copies
\* the payload and then bumps that byte in the profile.
prepare_service_data_rollsPayload(uuid, payload, buf) ==
    LET b0 == [buf EXCEPT ![1] = uuid % 256]
        b1 == [b0 EXCEPT ![2] = (uuid \div 256) % 256]
        b2 == [i \in 1..Len(b1) |->
                 IF i >= 3 /\ i <= 2 + Len(payload) THEN payload[i - 2] ELSE b1[i]]
    IN  [uuid |-> uuid,
         payload |-> [payload EXCEPT ![Len(payload)] = (@ + 1) % 256],
         buf |-> b2]

\* void prepare_service_data(): reads the two profile globals, writes the
\* buffer.  The result is the three globals after the call.
prepare_service_data(uuid, payload, buf) ==
    LET b0 == [buf EXCEPT ![1] = uuid % 256]
        b1 == [b0 EXCEPT ![2] = (uuid \div 256) % 256]
        \* memcpy(&service_data[2], service_data_payload, sizeof payload)
        b2 == [i \in 1..Len(b1) |->
                 IF i >= 3 /\ i <= 2 + Len(payload) THEN payload[i - 2] ELSE b1[i]]
    IN  [uuid |-> uuid, payload |-> payload, buf |-> b2]

\* the globals after a call of prepare_service_data in the current state
Prepared == prepare_service_data(service_data_uuid, service_data_payload, service_data)

\* adv_data.p_service_data / service_data_len: the bytes the radio is given
AdvServiceData(buf) == SubSeq(buf, 1, SERVICE_DATA_SIZE)

(* ------------------------------ app_main ------------------------------ *)
\* mac_r is the status of esp_base_mac_addr_set (only logged); init_ok says
\* whether every ESP_ERROR_CHECK passed (a failing one aborts the program).
app_main(mac_r, init_ok) ==
    /\ pc = "boot"
    /\ IF init_ok
       THEN /\ pc' = "running"
            /\ trace' = trace \o
                 << Call("esp_base_mac_addr_set", 0, 0, 0, mac_r, new_mac),
                    Call("esp_ble_gattc_app_register", 0, 0, 0, ESP_OK, <<>>),
                    Call("esp_ble_gatts_app_register", 0, 0, 0, ESP_OK, <<>>) >>
       ELSE /\ pc' = "aborted"
            /\ trace' = trace \o
                 << Call("esp_base_mac_addr_set", 0, 0, 0, mac_r, new_mac) >>
    /\ UNCHANGED << client_vars, profile_vars, service_data, unsolicited >>

(* ------------------------- gap_event_handler -------------------------- *)
\* case ESP_GAP_BLE_ADV_DATA_SET_COMPLETE_EVT; r is the status
\* esp_ble_gap_start_advertising returns (dropped by the code)
case_ESP_GAP_BLE_ADV_DATA_SET_COMPLETE_EVT(event, status, r) ==
    /\ service_data_uuid' = Prepared.uuid
    /\ service_data_payload' = Prepared.payload
    /\ service_data' = Prepared.buf
    /\ trace' = trace \o
         << Evt(event, status, 0, 0),
            Step("prepare_service_data", 0, 0, Prepared.buf),
            Call("esp_ble_gap_start_advertising", 0, 0, 0, r, <<>>) >>

\* Variant that asks for advertising again whenever a start completes.
case_ESP_GAP_BLE_ADV_START_COMPLETE_EVT_restarts(event, status, r) ==
    /\ trace' = trace \o
         << Evt(event, status, 0, 0),
            Log("Advertising started", 0, 0),
            Call("esp_ble_gap_start_advertising", 0, 0, 0, r, <<>>) >>
    /\ UNCHANGED << profile_vars, service_data >>

\* case ESP_GAP_BLE_ADV_START_COMPLETE_EVT: the line "Advertising started" is
\* logged; param->adv_start_cmpl.status is not read
case_ESP_GAP_BLE_ADV_START_COMPLETE_EVT(event, status, r) ==
    /\ trace' = trace \o
         << Evt(event, status, 0, 0),
            Log("Advertising started", 0, 0) >>
    /\ UNCHANGED << profile_vars, service_data >>

\* case ESP_GAP_BLE_SCAN_RESULT_EVT and default: nothing but a log line
case_gap_other(event, status) ==
    /\ trace' = Append(trace, Evt(event, status, 0, 0))
    /\ UNCHANGED << profile_vars, service_data >>

\* event: the event name; status: param->adv_start_cmpl.status (not read by
\* the code); r: the status a request made by the handler returns.
gap_event_handler(event, status, r) ==
    /\ CASE event = "ESP_GAP_BLE_ADV_DATA_SET_COMPLETE_EVT" ->
              case_ESP_GAP_BLE_ADV_DATA_SET_COMPLETE_EVT(event, status, r)
         [] event = "ESP_GAP_BLE_ADV_START_COMPLETE_EVT" ->
              case_ESP_GAP_BLE_ADV_START_COMPLETE_EVT(event, status, r)
         [] OTHER -> case_gap_other(event, status)
    /\ UNCHANGED client_vars

(* ------------------------ gatts_event_handler ------------------------- *)
\* Variant of the registration case that does not wait for the radio's
\* acknowledgment: it requests the start right after submitting the data.
case_ESP_GATTS_REG_EVT_startsWithoutAck(event, gatts_if, conn_id, ret) ==
    /\ service_data_uuid' = Prepared.uuid
    /\ service_data_payload' = Prepared.payload
    /\ service_data' = Prepared.buf
    /\ trace' = trace \o
         << Evt(event, 0, conn_id, gatts_if),
            Call("esp_ble_gap_set_device_name", 0, 0, 0, ESP_OK, <<>>),
            Step("prepare_service_data", 0, 0, Prepared.buf),
            Call("esp_ble_gap_config_adv_data", 0, 0, 0, ret,
                 AdvServiceData(Prepared.buf)),
            Call("esp_ble_gap_start_advertising", 0, 0, 0, ESP_OK, <<>>) >>

\* case ESP_GATTS_REG_EVT.  ret: the status esp_ble_gap_config_adv_data
\* returns (logged when non-zero).  The status of esp_ble_gap_set_device_name
\* is dropped by the code and has no later effect; the trace records the
\* request only.
case_ESP_GATTS_REG_EVT(event, gatts_if, conn_id, ret) ==
    /\ service_data_uuid' = Prepared.uuid
    /\ service_data_payload' = Prepared.payload
    /\ service_data' = Prepared.buf
    /\ trace' = trace \o
         << Evt(event, 0, conn_id, gatts_if),
            Call("esp_ble_gap_set_device_name", 0, 0, 0, ESP_OK, <<>>),
            Step("prepare_service_data", 0, 0, Prepared.buf),
            Call("esp_ble_gap_config_adv_data", 0, 0, 0, ret,
                 AdvServiceData(Prepared.buf)) >>
         \o (IF ret # ESP_OK
             THEN << Log("esp_ble_gap_config_adv_data failed", ret, 0) >>
             ELSE << >>)

\* Variant with the commented-out pre-connect enabled: when an app connects
\* and the target is not connected, it opens the target connection.
case_gatts_other_preconnects(event, gatts_if, conn_id) ==
    /\ trace' = trace \o << Evt(event, 0, conn_id, gatts_if) >>
         \o (IF event = "ESP_GATTS_CONNECT_EVT" /\ ~connected
             THEN << Call("esp_ble_gattc_open", gattc_if_global,
                          BLE_ADDR_TYPE_PUBLIC, 1, ESP_OK, target_bda) >>
             ELSE << >>)
    /\ UNCHANGED << profile_vars, service_data >>

\* case ESP_GATTS_CONNECT_EVT, ESP_GATTS_DISCONNECT_EVT and default: a log
\* line at most (the pre-connect to the target is commented out)
case_gatts_other(event, gatts_if, conn_id) ==
    /\ trace' = Append(trace, Evt(event, 0, conn_id, gatts_if))
    /\ UNCHANGED << profile_vars, service_data >>

\* Variant whose server-registration case also resets the client link: it
\* clears connected and the stored connection handle.
gatts_event_handler_resetsClient(event, gatts_if, conn_id, ret) ==
    /\ CASE event = "ESP_GATTS_REG_EVT" ->
              /\ case_ESP_GATTS_REG_EVT(event, gatts_if, conn_id, ret)
              /\ connected' = FALSE
              /\ gattc_conn_id_global' = 0
              /\ UNCHANGED gattc_if_global
         [] OTHER ->
              /\ case_gatts_other(event, gatts_if, conn_id)
              /\ UNCHANGED client_vars

gatts_event_handler(event, gatts_if, conn_id, ret) ==
    /\ CASE event = "ESP_GATTS_REG_EVT" ->
              case_ESP_GATTS_REG_EVT(event, gatts_if, conn_id, ret)
         [] OTHER -> case_gatts_other(event, gatts_if, conn_id)
    /\ UNCHANGED client_vars

(* ------------------------ gattc_event_handler ------------------------- *)
\* param: the fields of *param the cases read (status, conn_id, uuid_len,
\* uuid16, value_len).  io: what the radio stack answers to the requests the
\* handler makes: r the immediate status of the first request, cnt the count
\* esp_ble_gattc_get_attr_count stores, malloc_ok whether malloc succeeds,
\* fetch_r / fetch_n the status of esp_ble_gattc_get_all_char and the count it
\* stores back, fetch_w the number of entries it wrote into the buffer.

\* case ESP_GATTC_REG_EVT
case_ESP_GATTC_REG_EVT(event, gattc_if, param, io) ==
    /\ gattc_if_global' = gattc_if
    /\ trace' = trace \o
         << Evt(event, 0, 0, gattc_if),
            Call("esp_ble_gattc_open", gattc_if_global', BLE_ADDR_TYPE_PUBLIC, 1,
                 io.r, target_bda) >>
    /\ UNCHANGED << gattc_conn_id_global, connected >>

\* Variant that searches on the handle stored before this event.
case_ESP_GATTC_OPEN_EVT_searchesStoredHandle(event, gattc_if, param, io) ==
    /\ IF param.status = ESP_GATT_OK
       THEN /\ gattc_conn_id_global' = param.conn_id
            /\ connected' = TRUE
            /\ trace' = trace \o
                 << Evt(event, param.status, param.conn_id, gattc_if),
                    Call("esp_ble_gattc_search_service", gattc_if,
                         gattc_conn_id_global, NULL, io.r, <<>>) >>
       ELSE /\ trace' = trace \o
                 << Evt(event, param.status, param.conn_id, gattc_if),
                    Log("Failed to open GATTC", param.status, 0) >>
            /\ UNCHANGED << gattc_conn_id_global, connected >>
    /\ UNCHANGED gattc_if_global

\* Variant with an automatic reconnect: a failed open is answered with a new
\* open request.
case_ESP_GATTC_OPEN_EVT_retries(event, gattc_if, param, io) ==
    /\ IF param.status = ESP_GATT_OK
       THEN /\ gattc_conn_id_global' = param.conn_id
            /\ connected' = TRUE
            /\ trace' = trace \o
                 << Evt(event, param.status, param.conn_id, gattc_if),
                    Call("esp_ble_gattc_search_service", gattc_if,
                         param.conn_id, NULL, io.r, <<>>) >>
       ELSE /\ trace' = trace \o
                 << Evt(event, param.status, param.conn_id, gattc_if),
                    Log("Failed to open GATTC", param.status, 0),
                    Call("esp_ble_gattc_open", gattc_if_global,
                         BLE_ADDR_TYPE_PUBLIC, 1, ESP_OK, target_bda) >>
            /\ UNCHANGED << gattc_conn_id_global, connected >>
    /\ UNCHANGED gattc_if_global

\* Variant that stops after a successful open: it stores the handle and sets
\* connected but requests no service search.
case_ESP_GATTC_OPEN_EVT_noSearch(event, gattc_if, param, io) ==
    /\ IF param.status = ESP_GATT_OK
       THEN /\ gattc_conn_id_global' = param.conn_id
            /\ connected' = TRUE
            /\ trace' = trace \o
                 << Evt(event, param.status, param.conn_id, gattc_if) >>
       ELSE /\ trace' = trace \o
                 << Evt(event, param.status, param.conn_id, gattc_if),
                    Log("Failed to open GATTC", param.status, 0) >>
            /\ UNCHANGED << gattc_conn_id_global, connected >>
    /\ UNCHANGED gattc_if_global

\* Variant that stores the event's connection handle whatever the status.
case_ESP_GATTC_OPEN_EVT_storesOnFailure(event, gattc_if, param, io) ==
    /\ gattc_conn_id_global' = param.conn_id
    /\ IF param.status = ESP_GATT_OK
       THEN /\ connected' = TRUE
            /\ trace' = trace \o
                 << Evt(event, param.status, param.conn_id, gattc_if),
                    Call("esp_ble_gattc_search_service", gattc_if,
                         param.conn_id, NULL, io.r, <<>>) >>
       ELSE /\ trace' = trace \o
                 << Evt(event, param.status, param.conn_id, gattc_if),
                    Log("Failed to open GATTC", param.status, 0) >>
            /\ UNCHANGED connected
    /\ UNCHANGED gattc_if_global

\* case ESP_GATTC_OPEN_EVT
case_ESP_GATTC_OPEN_EVT(event, gattc_if, param, io) ==
    /\ IF param.status = ESP_GATT_OK
       THEN /\ gattc_conn_id_global' = param.conn_id
            /\ connected' = TRUE
            /\ trace' = trace \o
                 << Evt(event, param.status, param.conn_id, gattc_if),
                    Call("esp_ble_gattc_search_service", gattc_if,
                         param.conn_id, NULL, io.r, <<>>) >>
       ELSE /\ trace' = trace \o
                 << Evt(event, param.status, param.conn_id, gattc_if),
                    Log("Failed to open GATTC", param.status, 0) >>
            /\ UNCHANGED << gattc_conn_id_global, connected >>
    /\ UNCHANGED gattc_if_global

\* case ESP_GATTC_SEARCH_RES_EVT
case_ESP_GATTC_SEARCH_RES_EVT(event, gattc_if, param, io) ==
    /\ trace' = trace \o
         << Evt(event, param.uuid_len, param.conn_id, gattc_if) >>
         \o (IF param.uuid_len = ESP_UUID_LEN_16
             THEN << Log("Service found UUID16", param.uuid16, 0) >>
             ELSE << >>)
    /\ UNCHANGED client_vars

\* Variant without the count > 0 guard.
case_ESP_GATTC_SEARCH_CMPL_EVT_noZeroGuard(event, gattc_if, param, io) ==
    /\ LET count == IF io.r = ESP_OK THEN io.cnt ELSE 0
           query == Call("esp_ble_gattc_get_attr_count", gattc_if,
                         gattc_conn_id_global, count, io.r, <<>>)
           head == << Evt(event, param.status, param.conn_id, gattc_if), query >>
       IN  trace' = trace \o
             (IF io.malloc_ok
              THEN head \o
                   << Step("malloc", count, 1, <<>>),
                      Call("esp_ble_gattc_get_all_char", gattc_if,
                           gattc_conn_id_global, count, io.fetch_r, <<>>),
                      Log("Char UUID", io.fetch_n, io.fetch_w),
                      Step("free", count, 1, <<>>) >>
              ELSE head \o << Step("malloc", count, 0, <<>>) >>)
    /\ UNCHANGED client_vars

\* case ESP_GATTC_SEARCH_CMPL_EVT
case_ESP_GATTC_SEARCH_CMPL_EVT(event, gattc_if, param, io) ==
    /\ LET \* uint16_t count = 0; esp_ble_gattc_get_attr_count(..., &count)
           count == IF io.r = ESP_OK THEN io.cnt ELSE 0
           query == Call("esp_ble_gattc_get_attr_count", gattc_if,
                         gattc_conn_id_global, count, io.r, <<>>)
           head == << Evt(event, param.status, param.conn_id, gattc_if), query >>
       IN  trace' = trace \o
             (IF count > 0
              THEN IF io.malloc_ok
                   THEN head \o
                        << Step("malloc", count, 1, <<>>),
                           Call("esp_ble_gattc_get_all_char", gattc_if,
                                gattc_conn_id_global, count, io.fetch_r, <<>>),
                           \* the loop reads entries 0 .. count-1, count
                           \* being what the fetch stored back
                           Log("Char UUID", io.fetch_n, io.fetch_w),
                           Step("free", count, 1, <<>>) >>
                   ELSE head \o << Step("malloc", count, 0, <<>>) >>
              ELSE head)
    /\ UNCHANGED client_vars

\* case ESP_GATTC_NOTIFY_EVT
case_ESP_GATTC_NOTIFY_EVT(event, gattc_if, param, io) ==
    /\ trace' = trace \o
         << Evt(event, param.value_len, param.conn_id, gattc_if),
            Log("Notify received", param.value_len, 0) >>
    /\ UNCHANGED client_vars

\* default (ESP_GATTC_DISCONNECT_EVT among others): nothing
case_gattc_default(event, gattc_if, param, io) ==
    /\ trace' = Append(trace, Evt(event, param.status, param.conn_id, gattc_if))
    /\ UNCHANGED client_vars

gattc_event_handler(event, gattc_if, param, io) ==
    /\ CASE event = "ESP_GATTC_REG_EVT" ->
              case_ESP_GATTC_REG_EVT(event, gattc_if, param, io)
         [] event = "ESP_GATTC_OPEN_EVT" ->
              case_ESP_GATTC_OPEN_EVT(event, gattc_if, param, io)
         [] event = "ESP_GATTC_SEARCH_RES_EVT" ->
              case_ESP_GATTC_SEARCH_RES_EVT(event, gattc_if, param, io)
         [] event = "ESP_GATTC_SEARCH_CMPL_EVT" ->
              case_ESP_GATTC_SEARCH_CMPL_EVT(event, gattc_if, param, io)
         [] event = "ESP_GATTC_NOTIFY_EVT" ->
              case_ESP_GATTC_NOTIFY_EVT(event, gattc_if, param, io)
         [] OTHER -> case_gattc_default(event, gattc_if, param, io)
    /\ UNCHANGED << profile_vars, service_data >>

(* ----------------------------- radio stack ---------------------------- *)
Num(S) == Cardinality(S)
\* deliveries of event n that answer a request
Solicited(n) == EvtIdx(n) \ unsolicited

\* a mobile app is attached to the server role
MobileConnected ==
    Num(EvtIdx("ESP_GATTS_CONNECT_EVT")) > Num(EvtIdx("ESP_GATTS_DISCONNECT_EVT"))

\* connection c was opened at trace index i and has not dropped since
OpenedAt(c, i) ==
    /\ IsEvt(trace[i], "ESP_GATTC_OPEN_EVT")
    /\ trace[i].a = ESP_GATT_OK
    /\ trace[i].b = c
DroppedAfter(c, i, k) ==
    \E j \in EvtIdx("ESP_GATTC_DISCONNECT_EVT") : j > i /\ j < k /\ trace[j].b = c
\* connection c is live before trace index k
LiveBefore(c, k) ==
    \E i \in DOMAIN trace : i < k /\ OpenedAt(c, i) /\ ~DroppedAfter(c, i, k)
LiveConns == {c \in ConnIds : LiveBefore(c, Len(trace) + 1)}

\* a service search the stack accepted and has not completed yet
PendingSearch ==
    Num(EvtIdx("ESP_GATTC_SEARCH_CMPL_EVT"))
      < Num(AccIdx("esp_ble_gattc_search_service"))
\* the connection the oldest pending search runs on
PendingSearchConn ==
    IF PendingSearch
    THEN trace[NthIdx(AccIdx("esp_ble_gattc_search_service"),
                      Num(EvtIdx("ESP_GATTC_SEARCH_CMPL_EVT")) + 1)].b
    ELSE 0

\* the event answers a request the stack accepted and has not answered yet
IsSolicited(event) ==
    CASE event = "ESP_GATTS_REG_EVT" ->
           Num(Solicited(event)) < Num(AccIdx("esp_ble_gatts_app_register"))
      [] event = "ESP_GATTC_REG_EVT" ->
           Num(Solicited(event)) < Num(AccIdx("esp_ble_gattc_app_register"))
      [] event = "ESP_GAP_BLE_ADV_DATA_SET_COMPLETE_EVT" ->
           Num(Solicited(event)) < Num(AccIdx("esp_ble_gap_config_adv_data"))
      [] event = "ESP_GAP_BLE_ADV_START_COMPLETE_EVT" ->
           Num(Solicited(event)) < Num(AccIdx("esp_ble_gap_start_advertising"))
      [] event = "ESP_GATTC_OPEN_EVT" ->
           Num(Solicited(event)) < Num(AccIdx("esp_ble_gattc_open"))
      [] event \in {"ESP_GATTC_SEARCH_RES_EVT", "ESP_GATTC_SEARCH_CMPL_EVT"} ->
           PendingSearch
      [] event \in {"ESP_GATTC_NOTIFY_EVT", "ESP_GATTC_DISCONNECT_EVT"} ->
           LiveConns # {}
      [] event = "ESP_GATTS_CONNECT_EVT" ->
           /\ AccIdx("esp_ble_gap_start_advertising") # {}
           /\ ~MobileConnected
      [] event \in {"ESP_GATTS_DISCONNECT_EVT", "ESP_GATTS_MTU_EVT"} ->
           MobileConnected
      [] event = "ESP_GAP_BLE_UPDATE_CONN_PARAMS_EVT" ->
           MobileConnected \/ LiveConns # {}
      [] OTHER -> FALSE

\* the event may also arrive unasked: a repeat of a registration or
\* data-set-complete event already delivered, an advertise-start-complete at
\* any time, a scan result although no scan was requested
MayArriveUnsolicited(event) ==
    CASE event \in {"ESP_GATTS_REG_EVT", "ESP_GATTC_REG_EVT",
                    "ESP_GAP_BLE_ADV_DATA_SET_COMPLETE_EVT"} ->
           EvtIdx(event) # {}
      [] event \in {"ESP_GAP_BLE_ADV_START_COMPLETE_EVT",
                    "ESP_GAP_BLE_SCAN_RESULT_EVT"} -> TRUE
      [] OTHER -> FALSE

\* the stack hands `event' to a handler: the guard and the bookkeeping
Deliver(event) ==
    /\ pc = "running"
    /\ NumEvents < MaxEvents
    /\ \/ IsSolicited(event)
       \/ MayArriveUnsolicited(event) /\ Num(unsolicited) < MaxSpurious
    /\ unsolicited' = IF IsSolicited(event) THEN unsolicited
                      ELSE unsolicited \cup {Len(trace) + 1}
    /\ UNCHANGED pc

GapEvents ==
    { "ESP_GAP_BLE_ADV_DATA_SET_COMPLETE_EVT", "ESP_GAP_BLE_ADV_START_COMPLETE_EVT",
      "ESP_GAP_BLE_SCAN_RESULT_EVT", "ESP_GAP_BLE_UPDATE_CONN_PARAMS_EVT" }
GattsEvents ==
    { "ESP_GATTS_REG_EVT", "ESP_GATTS_CONNECT_EVT", "ESP_GATTS_DISCONNECT_EVT",
      "ESP_GATTS_MTU_EVT" }
GattcEvents ==
    { "ESP_GATTC_REG_EVT", "ESP_GATTC_OPEN_EVT", "ESP_GATTC_SEARCH_RES_EVT",
      "ESP_GATTC_SEARCH_CMPL_EVT", "ESP_GATTC_NOTIFY_EVT",
      "ESP_GATTC_DISCONNECT_EVT" }

\* esp_bt_status_t of an advertise-start-complete event (success, fail)
AdvStatuses == {0, 1}

Param0 == [status |-> ESP_GATT_OK, conn_id |-> 0, uuid_len |-> 0, uuid16 |-> 0,
           value_len |-> 0]
IO0 == [r |-> ESP_OK, cnt |-> 0, malloc_ok |-> TRUE, fetch_r |-> ESP_OK,
        fetch_n |-> 0, fetch_w |-> 0]

\* what the stack may hand to gattc_event_handler with each event
GattcParams(event) ==
    CASE event = "ESP_GATTC_OPEN_EVT" ->
           { [Param0 EXCEPT !.status = st, !.conn_id = c] :
               st \in {ESP_GATT_OK} \cup OpenFailStatuses, c \in ConnIds }
      [] event = "ESP_GATTC_SEARCH_RES_EVT" ->
           { [Param0 EXCEPT !.conn_id = PendingSearchConn, !.uuid_len = l,
                            !.uuid16 = 6153] : l \in UuidLens }
      [] event = "ESP_GATTC_SEARCH_CMPL_EVT" ->
           { [Param0 EXCEPT !.conn_id = PendingSearchConn] }
      [] event \in {"ESP_GATTC_NOTIFY_EVT", "ESP_GATTC_DISCONNECT_EVT"} ->
           { [Param0 EXCEPT !.conn_id = c, !.value_len = 2] : c \in LiveConns }
      [] OTHER -> { Param0 }

\* what the stack may answer to the requests the handler makes on the event
GattcIO(event, param) ==
    CASE event = "ESP_GATTC_REG_EVT" ->
           { [IO0 EXCEPT !.r = r] : r \in CallResults }
      [] event = "ESP_GATTC_OPEN_EVT" /\ param.status = ESP_GATT_OK ->
           { [IO0 EXCEPT !.r = r] : r \in CallResults }
      [] event = "ESP_GATTC_SEARCH_CMPL_EVT" ->
           \* the count query is rejected and stores nothing
           { [IO0 EXCEPT !.r = r] : r \in CallResults \ {ESP_OK} }
           \* it reports c characteristics
           \cup { [IO0 EXCEPT !.cnt = 0] }
           \* malloc fails
           \cup { [IO0 EXCEPT !.cnt = c, !.malloc_ok = FALSE] :
                    c \in 1..MaxAttrCount }
           \* the fetch returns n <= c entries
           \cup UNION { { [IO0 EXCEPT !.cnt = c, !.fetch_n = n, !.fetch_w = n] :
                            n \in 0..c } : c \in 1..MaxAttrCount }
           \* the fetch fails: nothing written, the count zeroed or left alone
           \cup UNION { { [IO0 EXCEPT !.cnt = c, !.fetch_r = r, !.fetch_n = n] :
                            n \in {0, c}, r \in CallResults \ {ESP_OK} } :
                        c \in 1..MaxAttrCount }
      [] OTHER -> { IO0 }

(* ------------------------------ behaviour ----------------------------- *)
Init ==
    /\ pc = "boot"
    /\ gattc_if_global = 0
    /\ gattc_conn_id_global = 0
    /\ connected = FALSE
    /\ service_data_uuid = SERVICE_DATA_UUID_INIT
    /\ service_data_payload = SERVICE_DATA_PAYLOAD_INIT
    /\ service_data = [i \in 1..SERVICE_DATA_SIZE |-> 0]
    /\ unsolicited = {}
    /\ trace = << >>

AppMain ==
    \E mac_r \in CallResults, init_ok \in BOOLEAN :
        app_main(mac_r, init_ok)

GapEvent ==
    \E event \in GapEvents, status \in AdvStatuses, r \in CallResults :
        /\ event # "ESP_GAP_BLE_ADV_START_COMPLETE_EVT" => status = 0
        /\ event # "ESP_GAP_BLE_ADV_DATA_SET_COMPLETE_EVT" => r = ESP_OK
        /\ Deliver(event)
        /\ gap_event_handler(event, status, r)

GattsEvent ==
    \E event \in GattsEvents, ret \in CallResults :
        /\ event # "ESP_GATTS_REG_EVT" => ret = ESP_OK
        /\ Deliver(event)
        /\ gatts_event_handler(event, StackIf.gatts, 0, ret)

GattcEvent ==
    \E event \in GattcEvents :
        \E param \in GattcParams(event) :
            \E io \in GattcIO(event, param) :
                /\ Deliver(event)
                /\ gattc_event_handler(event, StackIf.gattc, param, io)

Next == AppMain \/ GapEvent \/ GattsEvent \/ GattcEvent

Spec == Init /\ [][Next]_vars

(* ----------------- a radio stack that answers, link kept --------------- *)
\* the events that report the outcome of a request the program made
OutcomeEvents ==
    { "ESP_GATTS_REG_EVT", "ESP_GATTC_REG_EVT",
      "ESP_GAP_BLE_ADV_DATA_SET_COMPLETE_EVT", "ESP_GAP_BLE_ADV_START_COMPLETE_EVT",
      "ESP_GATTC_OPEN_EVT", "ESP_GATTC_SEARCH_CMPL_EVT" }

\* the stack hands to a handler the outcome event of a request it accepted and
\* has not answered yet.  Nothing arrives unasked and the link does not drop;
\* the events that answer no request (notifications, search results, the
\* mobile app's connects) are left out: no handler answers them with a request
\* or a change of state.
DeliverLive(event) ==
    /\ pc = "running"
    /\ event \in OutcomeEvents
    /\ IsSolicited(event)
    /\ UNCHANGED << pc, unsolicited >>

GapOutcome ==
    \E event \in GapEvents, status \in AdvStatuses, r \in CallResults :
        /\ event # "ESP_GAP_BLE_ADV_START_COMPLETE_EVT" => status = 0
        /\ event # "ESP_GAP_BLE_ADV_DATA_SET_COMPLETE_EVT" => r = ESP_OK
        /\ DeliverLive(event)
        /\ gap_event_handler(event, status, r)

GattsOutcome ==
    \E event \in GattsEvents, ret \in CallResults :
        /\ DeliverLive(event)
        /\ gatts_event_handler(event, StackIf.gatts, 0, ret)

GattcOutcome ==
    \E event \in GattcEvents :
        \E param \in GattcParams(event) :
            \E io \in GattcIO(event, param) :
                /\ DeliverLive(event)
                /\ gattc_event_handler(event, StackIf.gattc, param, io)

NextLive == AppMain \/ GapOutcome \/ GattsOutcome \/ GattcOutcome

\* the stack eventually delivers the outcome event of every request it accepted
Fairness ==
    /\ WF_vars(GapOutcome)
    /\ WF_vars(GattsOutcome)
    /\ WF_vars(GattcOutcome)

SpecLive == Init /\ [][NextLive]_vars /\ Fairness

(* ------------------------------- claims ------------------------------- *)
\* the event whose handler produced trace entry i (0: none, app_main)
HandlerEvt(i) ==
    IF \E j \in AllEvtIdx : j <= i
    THEN CHOOSE j \in AllEvtIdx : j <= i /\ \A k \in AllEvtIdx : k <= i => k <= j
    ELSE 0
\* the last event delivered (0: none yet)
LastEvt == HandlerEvt(Len(trace))

DSC == "ESP_GAP_BLE_ADV_DATA_SET_COMPLETE_EVT"

\* C1: every startAdvertising request comes after a DataSetComplete event,
\* which itself comes after an advertising-data submission the radio accepted
\* and which the server-registration handler made.
C1_StartOnlyAfterDataSubmitted ==
    \A i \in CallIdx("esp_ble_gap_start_advertising") :
        \E j \in AccIdx("esp_ble_gap_config_adv_data"), k \in EvtIdx(DSC) :
            /\ j < k /\ k < i
            /\ HandlerEvt(j) # 0
            /\ IsEvt(trace[HandlerEvt(j)], "ESP_GATTS_REG_EVT")

\* C1 witness: advertising start was requested in a run in which other events
\* (a client event, an early advertise-start-complete) were delivered as well
C1_Witness ==
    /\ CallIdx("esp_ble_gap_start_advertising") # {}
    /\ EvtIdx("ESP_GATTC_REG_EVT") # {}

\* C2 (as claimed): the number of startAdvertising requests never exceeds the
\* number of DataSubmitted transitions, i.e. of DataSetComplete events that
\* acknowledge a submission; a repeated DataSetComplete adds no request.
C2_AtMostOneStartPerDataSubmitted ==
    Num(CallIdx("esp_ble_gap_start_advertising")) <= Num(Solicited(DSC))

\* C2 scenario reached: a DataSetComplete event was delivered a second time
C2_Redelivered == Num(EvtIdx(DSC)) > Num(Solicited(DSC))

OPEN == "ESP_GATTC_OPEN_EVT"
\* the last event delivered is an open event with a non-OK status
LastIsFailedOpen ==
    /\ LastEvt # 0
    /\ IsEvt(trace[LastEvt], OPEN)
    /\ trace[LastEvt].a # ESP_GATT_OK

\* C3 (as claimed): after an open event with a non-OK status, in whatever
\* state it arrived, connected is false and the stored connection handle is
\* not a non-zero handle left from an earlier connection.
C3_FailedOpenClearsLink ==
    LastIsFailedOpen => (~connected /\ gattc_conn_id_global = 0)

\* C4 (as claimed): no attribute-count query and no characteristic fetch is
\* issued on a connection that has dropped: the handle such a request carries
\* belongs to a connection that was opened and has not been disconnected.
C4_NoEnumerationOnDroppedLink ==
    \A i \in CallIdx("esp_ble_gattc_get_attr_count")
             \cup CallIdx("esp_ble_gattc_get_all_char") :
        LiveBefore(trace[i].b, i)

\* trace entry i is the last thing its handler did
EndsHandler(i) == i = Len(trace) \/ trace[i + 1].t = "evt"

\* C5: whenever the attribute-count query leaves the count at 0 (it reports 0,
\* or it is rejected and stores nothing), the handler does nothing more: no
\* malloc, no characteristic fetch, no characteristic listed.
C5_ZeroCountSkipsFetch ==
    \A i \in CallIdx("esp_ble_gattc_get_attr_count") :
        trace[i].c = 0 => EndsHandler(i)

\* C5 witness: a search-complete whose query was accepted and reported 0
C5_Witness ==
    \E i \in CallIdx("esp_ble_gattc_get_attr_count") :
        trace[i].c = 0 /\ trace[i].r = ESP_OK

\* C6: the advertising path runs in order.  A start request is made by the
\* handler of a DataSetComplete event; a DataSetComplete event follows an
\* accepted data submission; a data submission is made by the handler of a
\* server-registration event, after that handler set the device name; the
\* device name is set by that handler only.  An advertise-start-complete event,
\* early or not, makes no request.
C6_AdvertisingPathOrder ==
    /\ \A i \in CallIdx("esp_ble_gap_start_advertising") :
          HandlerEvt(i) # 0 /\ IsEvt(trace[HandlerEvt(i)], DSC)
    /\ \A k \in EvtIdx(DSC) :
          \E j \in AccIdx("esp_ble_gap_config_adv_data") : j < k
    /\ \A j \in CallIdx("esp_ble_gap_config_adv_data") :
          /\ HandlerEvt(j) # 0
          /\ IsEvt(trace[HandlerEvt(j)], "ESP_GATTS_REG_EVT")
          /\ \E n \in CallIdx("esp_ble_gap_set_device_name") :
                n < j /\ HandlerEvt(n) = HandlerEvt(j)
    /\ \A n \in CallIdx("esp_ble_gap_set_device_name") :
          /\ n > 1
          /\ IsEvt(trace[n - 1], "ESP_GATTS_REG_EVT")
    /\ \A i \in EvtIdx("ESP_GAP_BLE_ADV_START_COMPLETE_EVT") :
          /\ i < Len(trace)
          /\ trace[i + 1].t = "log"
          /\ EndsHandler(i + 1)

\* C6 witness: an advertise-start-complete event was delivered before the
\* DataSetComplete event, and advertising start was requested after it
C6_Witness ==
    \E e \in EvtIdx("ESP_GAP_BLE_ADV_START_COMPLETE_EVT"), k \in EvtIdx(DSC),
       i \in CallIdx("esp_ble_gap_start_advertising") :
        e < k /\ k < i

\* C7: the handler of a client-registration event requests a connection to
\* target_bda on the interface it was registered with; the handler of an open
\* event with status OK requests a service search with the null filter on the
\* event's interface and connection handle, and leaves that handle stored and
\* connected true.
C7_OpenThenSearch ==
    /\ \A i \in EvtIdx("ESP_GATTC_REG_EVT") :
          /\ i < Len(trace)
          /\ IsCall(trace[i + 1], "esp_ble_gattc_open")
          /\ trace[i + 1].a = trace[i].c
          /\ trace[i + 1].buf = target_bda
    /\ \A i \in EvtIdx(OPEN) :
          trace[i].a = ESP_GATT_OK =>
              /\ i < Len(trace)
              /\ IsCall(trace[i + 1], "esp_ble_gattc_search_service")
              /\ trace[i + 1].a = trace[i].c
              /\ trace[i + 1].b = trace[i].b
              /\ trace[i + 1].c = NULL
    /\ (LastEvt # 0 /\ IsEvt(trace[LastEvt], OPEN)
          /\ trace[LastEvt].a = ESP_GATT_OK)
         => (connected /\ gattc_conn_id_global = trace[LastEvt].b)

\* C7 witness: a successful open on a handle other than the stored one has just
\* been handled
C7_Witness ==
    /\ LastEvt # 0
    /\ IsEvt(trace[LastEvt], OPEN)
    /\ trace[LastEvt].a = ESP_GATT_OK
    /\ trace[LastEvt].b # 0
    /\ Len(trace) = LastEvt + 1

\* C8 (as claimed): after an open event with a non-OK status the client is
\* Disconnected (connected is false), the handler issued no request, and it
\* reported the failure with the status the event carried.
C8_FailedOpenDisconnectedAndReported ==
    LastIsFailedOpen =>
        /\ ~connected
        /\ Len(trace) = LastEvt + 1
        /\ trace[Len(trace)] = Log("Failed to open GATTC", trace[LastEvt].a, 0)

\* C9: with service-data UUID 0xC1C5 and a 20-byte payload, the service data
\* handed to the radio with every advertising-data submission is 22 bytes:
\* C5, C1, then the payload bytes in order.
C9_ServiceDataBytes ==
    (service_data_uuid = 49605 /\ Len(service_data_payload) = 20) =>
        \A i \in CallIdx("esp_ble_gap_config_adv_data") :
            /\ Len(trace[i].buf) = 22
            /\ trace[i].buf[1] = 197
            /\ trace[i].buf[2] = 193
            /\ \A k \in 1..20 : trace[i].buf[k + 2] = service_data_payload[k]

\* C9 witness: advertising data has been submitted
C9_Witness ==
    /\ service_data_uuid = 49605
    /\ Len(service_data_payload) = 20
    /\ CallIdx("esp_ble_gap_config_adv_data") # {}

PrepIdx == {i \in DOMAIN trace :
              trace[i].t = "step" /\ trace[i].n = "prepare_service_data"}

\* C10: every call of prepare_service_data leaves the same bytes in the
\* service-data buffer, and none changes the profile's UUID or payload.
C10_PrepareIdempotent ==
    /\ \A i \in PrepIdx :
          /\ trace[i].buf = service_data
          /\ \A j \in PrepIdx : trace[i].buf = trace[j].buf
    /\ service_data_uuid = SERVICE_DATA_UUID_INIT
    /\ service_data_payload = SERVICE_DATA_PAYLOAD_INIT

\* C10 witness: the buffer was prepared on server registration and again on two
\* DataSetComplete events
C10_Witness ==
    /\ Num(PrepIdx) >= 3
    /\ Num(EvtIdx(DSC)) >= 2

\* the client link events delivered so far: opens and disconnects
LinkEvtIdx == EvtIdx(OPEN) \cup EvtIdx("ESP_GATTC_DISCONNECT_EVT")
\* the most recent client link event (0: none yet)
LastLinkEvt ==
    IF LinkEvtIdx = {} THEN 0
    ELSE CHOOSE i \in LinkEvtIdx : \A j \in LinkEvtIdx : j <= i

\* C11 (as claimed): connected is true exactly when the most recent client
\* link event is an open event with status OK; after a client disconnect
\* event it is false.
C11_ConnectedTracksLink ==
    connected <=> (/\ LastLinkEvt # 0
                   /\ IsEvt(trace[LastLinkEvt], OPEN)
                   /\ trace[LastLinkEvt].a = ESP_GATT_OK)

C13_AddressSetBeforeSubmission ==
    \A j \in CallIdx("esp_ble_gap_config_adv_data") :
        \E i \in AccIdx("esp_base_mac_addr_set") : i < j

\* the characteristic listings made so far: entry.a entries were read from the
\* buffer, entry.b entries had been written into it by the fetch
ListingIdx == {i \in DOMAIN trace : trace[i].t = "log" /\ trace[i].n = "Char UUID"}

\* C14 (as claimed): a listing reads exactly the entries the fetch returned,
\* whether the fetch returned all that was asked for, fewer, or failed; no
\* index at or beyond the returned count is read.
C14_ListingReadsReturnedEntriesOnly ==
    \A i \in ListingIdx : trace[i].a = trace[i].b

\* C14, success case reached: the fetch succeeded and returned fewer entries
\* than requested, and the listing read just those
C14_FewerReturned ==
    \E i \in ListingIdx :
        /\ trace[i - 1].r = ESP_OK
        /\ trace[i].a < trace[i - 1].c
        /\ trace[i].a = trace[i].b

\* the requests to the radio stack the program makes from its handlers
RadioRequests ==
    { "esp_ble_gap_config_adv_data", "esp_ble_gap_start_advertising",
      "esp_ble_gattc_open", "esp_ble_gattc_search_service",
      "esp_ble_gattc_get_attr_count", "esp_ble_gattc_get_all_char" }
\* the rejected ones: the stack returned a non-success status at once
RejectedIdx ==
    {i \in DOMAIN trace :
        trace[i].t = "call" /\ trace[i].n \in RadioRequests /\ trace[i].r # ESP_OK}
\* after trace entry i its handler did nothing that needed the request's result
AbandonedAt(i) ==
    CASE trace[i].n = "esp_ble_gap_config_adv_data" ->
           \* the failure is logged and the handler ends
           /\ i < Len(trace)
           /\ trace[i + 1] = Log("esp_ble_gap_config_adv_data failed", trace[i].r, 0)
           /\ EndsHandler(i + 1)
      [] trace[i].n = "esp_ble_gattc_get_all_char" ->
           \* no entry of the buffer is read
           /\ i < Len(trace)
           /\ trace[i + 1].t = "log" /\ trace[i + 1].n = "Char UUID"
           /\ trace[i + 1].a = 0
      [] OTHER -> EndsHandler(i)

\* C15 (as claimed): every request the radio stack rejects at once is
\* abandoned: its handler takes no follow-on step that needs the request to
\* have succeeded (after a rejected data submission only the failure is
\* logged, and no start is requested by that handler).
C15_RejectedRequestAbandoned ==
    \A i \in RejectedIdx : AbandonedAt(i)

\* C15 without the characteristic fetch: the other five requests are abandoned
\* when rejected
C15_RejectedExceptFetchAbandoned ==
    \A i \in RejectedIdx :
        trace[i].n # "esp_ble_gattc_get_all_char" => AbandonedAt(i)

ADV_START == "ESP_GAP_BLE_ADV_START_COMPLETE_EVT"
\* the advertise-start-complete events that carry a failure status
FailedStartIdx == {i \in EvtIdx(ADV_START) : trace[i].a # 0}
\* the handler of event i reported that advertising has started
ReportedAdvertising(i) ==
    \E k \in DOMAIN trace :
        /\ HandlerEvt(k) = i
        /\ trace[k] = Log("Advertising started", 0, 0)

\* C16 (as claimed): an advertise-start-complete event with a failure status
\* is not treated as Advertising (the handler does not report advertising as
\* started), and its handler requests no start again, so the start requests
\* stay bounded by the DataSetComplete events.
C16_FailedStartNotAdvertising ==
    /\ \A i \in FailedStartIdx :
          /\ ~ReportedAdvertising(i)
          /\ \A k \in CallIdx("esp_ble_gap_start_advertising") : HandlerEvt(k) # i
    /\ Num(CallIdx("esp_ble_gap_start_advertising")) <= Num(EvtIdx(DSC))

\* C16, the retry half alone: no handler of a failed start requests a start,
\* and the start requests are bounded by the DataSetComplete events
C16_NoRetryAfterFailedStart ==
    /\ \A i \in FailedStartIdx :
          \A k \in CallIdx("esp_ble_gap_start_advertising") : HandlerEvt(k) # i
    /\ Num(CallIdx("esp_ble_gap_start_advertising")) <= Num(EvtIdx(DSC))

\* C17: no automatic reconnect.  Every open-connection request is the first
\* thing the handler of a client-registration event does, every such event is
\* followed by one, and so there are exactly as many open requests as
\* client-registration events: no failed open, disconnect, discovery,
\* notification or server-role event issues one.
C17_OpenOnlyOnClientRegistration ==
    /\ \A i \in CallIdx("esp_ble_gattc_open") :
          /\ i > 1
          /\ IsEvt(trace[i - 1], "ESP_GATTC_REG_EVT")
    /\ Num(CallIdx("esp_ble_gattc_open")) = Num(EvtIdx("ESP_GATTC_REG_EVT"))

\* C17 witness: an open failed, or an opened link dropped, and a later event
\* has been handled since; one open request has been made in the whole run
C17_Witness ==
    /\ Num(CallIdx("esp_ble_gattc_open")) = 1
    /\ \E i \in AllEvtIdx :
          /\ \/ IsEvt(trace[i], OPEN) /\ trace[i].a # ESP_GATT_OK
             \/ IsEvt(trace[i], "ESP_GATTC_DISCONNECT_EVT")
          /\ \E j \in AllEvtIdx : j > i

ClientRegistered == EvtIdx("ESP_GATTC_REG_EVT") # {}
\* Ready: a search-complete event was handled, the enumeration has run
Ready == EvtIdx("ESP_GATTC_SEARCH_CMPL_EVT") # {}
\* Disconnected after a failed open: the failure is on record
FailedOpenRecorded ==
    \E i \in DOMAIN trace : trace[i].t = "log" /\ trace[i].n = "Failed to open GATTC"
\* the stack rejected the open-connection or the service-search request
ClientRequestRejected ==
    \E i \in RejectedIdx :
        trace[i].n \in {"esp_ble_gattc_open", "esp_ble_gattc_search_service"}
DataSubmissionAccepted == AccIdx("esp_ble_gap_config_adv_data") # {}
StartRequested == CallIdx("esp_ble_gap_start_advertising") # {}

ClientEvtIdx == {i \in AllEvtIdx : trace[i].n \in GattcEvents}
OtherEvtIdx == AllEvtIdx \ ClientEvtIdx
OkOpenIdx == {i \in EvtIdx(OPEN) : trace[i].a = ESP_GATT_OK}
LastOf(S) == CHOOSE i \in S : \A j \in S : j <= i
ClientRequests ==
    { "esp_ble_gattc_open", "esp_ble_gattc_search_service",
      "esp_ble_gattc_get_attr_count", "esp_ble_gattc_get_all_char" }
AdvRequests ==
    { "esp_ble_gap_set_device_name", "esp_ble_gap_config_adv_data",
      "esp_ble_gap_start_advertising" }
\* what the handler of event e wrote to the history after the event itself
BlockEnd(e) ==
    IF \E j \in AllEvtIdx : j > e
    THEN (CHOOSE j \in AllEvtIdx : j > e /\ \A k \in AllEvtIdx : k > e => j <= k) - 1
    ELSE Len(trace)
IsCallEntry(x) == x.t = "call"
BlockCalls(e) == SelectSeq(SubSeq(trace, e + 1, BlockEnd(e)), IsCallEntry)
CallNames(e) == [k \in 1..Len(BlockCalls(e)) |-> BlockCalls(e)[k].n]
\* the connection handle the client events before event e leave stored
HandleBefore(e) ==
    IF \E i \in OkOpenIdx : i < e
    THEN trace[LastOf({i \in OkOpenIdx : i < e})].b
    ELSE 0
\* the requests the handler of client event e makes, as its event, the client
\* events before it and the stack's answers to the handler decide them
ClientBlockAsExpected(e) ==
    LET ev == trace[e]
        calls == BlockCalls(e)
    IN  CASE ev.n = "ESP_GATTC_REG_EVT" ->
               /\ CallNames(e) = << "esp_ble_gattc_open" >>
               /\ calls[1].a = ev.c
               /\ calls[1].buf = target_bda
          [] ev.n = OPEN /\ ev.a = ESP_GATT_OK ->
               /\ CallNames(e) = << "esp_ble_gattc_search_service" >>
               /\ calls[1].a = ev.c
               /\ calls[1].b = ev.b
          [] ev.n = "ESP_GATTC_SEARCH_CMPL_EVT" ->
               /\ Len(calls) >= 1
               /\ calls[1].n = "esp_ble_gattc_get_attr_count"
               /\ CallNames(e) =
                    IF calls[1].c > 0 /\ trace[e + 2].r = 1
                    THEN << "esp_ble_gattc_get_attr_count",
                            "esp_ble_gattc_get_all_char" >>
                    ELSE << "esp_ble_gattc_get_attr_count" >>
               /\ \A k \in 1..Len(calls) :
                     calls[k].a = ev.c /\ calls[k].b = HandleBefore(e)
          [] OTHER -> calls = << >>
\* the requests the handler of a server-role or GAP event makes
OtherBlockAsExpected(e) ==
    CallNames(e) =
        CASE trace[e].n = "ESP_GATTS_REG_EVT" ->
               << "esp_ble_gap_set_device_name", "esp_ble_gap_config_adv_data" >>
          [] trace[e].n = DSC -> << "esp_ble_gap_start_advertising" >>
          [] OTHER -> << >>

\* C19: the two roles are independent, whatever the interleaving.  The client
\* state is decided by the client events alone (the interface of the last
\* registration, the handle of the last successful open, whether an open has
\* succeeded), and so are the client requests, handler by handler; the
\* advertising requests are decided by the server-role and GAP events alone.
\* So no server-role or GAP event writes client state or makes a client
\* request, and no client event makes an advertising request.
C19_RolesIndependent ==
    /\ gattc_if_global =
          IF EvtIdx("ESP_GATTC_REG_EVT") = {} THEN 0
          ELSE trace[LastOf(EvtIdx("ESP_GATTC_REG_EVT"))].c
    /\ gattc_conn_id_global = HandleBefore(Len(trace) + 1)
    /\ connected = (OkOpenIdx # {})
    /\ \A e \in ClientEvtIdx : ClientBlockAsExpected(e)
    /\ \A e \in OtherEvtIdx : OtherBlockAsExpected(e)
    /\ \A i \in DOMAIN trace :
          trace[i].t = "call" /\ trace[i].n \in ClientRequests \cup AdvRequests
              => HandlerEvt(i) # 0

\* C19 witness: a server-role or GAP event was handled between two client
\* events, after a successful open and with the client connected, and both
\* roles have made requests
C19_Witness ==
    /\ connected
    /\ \E i \in OkOpenIdx, j \in OtherEvtIdx, k \in ClientEvtIdx : i < j /\ j < k
    /\ CallIdx("esp_ble_gap_config_adv_data") # {}

EnumerationIdx ==
    CallIdx("esp_ble_gattc_get_attr_count") \cup CallIdx("esp_ble_gattc_get_all_char")

\* C20: the stored connection handle is the handle of the most recent open
\* event with status OK (0, its initial value, before any): a failed open
\* does not overwrite it.  Every attribute-count query and characteristic
\* fetch of a search-complete handler carries that handle, and a successful
\* open that assigned it came before.
C20_EnumerationUsesLastOpenedHandle ==
    /\ IF OkOpenIdx = {}
       THEN gattc_conn_id_global = 0
       ELSE gattc_conn_id_global = trace[LastOf(OkOpenIdx)].b
    /\ \A i \in EnumerationIdx :
          \E o \in OkOpenIdx :
              /\ o < i
              /\ \A p \in OkOpenIdx : p < i => p <= o
              /\ trace[i].b = trace[o].b

\* C20 witness: the enumeration has run, query and fetch, on a non-zero handle
C20_Witness ==
    \E i \in CallIdx("esp_ble_gattc_get_all_char") :
        /\ trace[i].b # 0
        /\ trace[i].b = gattc_conn_id_global

\* C20, second case reached: an open failed after an open had succeeded
C20_FailedAfterOpened ==
    \E o \in OkOpenIdx, f \in EvtIdx(OPEN) :
        o < f /\ trace[f].a # ESP_GATT_OK /\ trace[f].b # trace[o].b

=============================================================================
